---- MODULE Spec2Model ----
(***************************************************************************)
(* Model of docgaps/docsgen.py: the scan for functions without a docstring, *)
(* the interactive session that collects docstrings, and the apply phase    *)
(* of main() that splices them into the files.                              *)
(*                                                                          *)
(* A file is a sequence of physical lines; the files considered contain no  *)
(* line boundary other than "\n", so str.splitlines() and the line numbers  *)
(* of ast agree on them.  A line is a record                                *)
(*   k     : what the line is ("def", "adef", "sig", "body", "class",       *)
(*           "deco", "ins", "")                                             *)
(*   ind   : the leading white space: the number of spaces, plus Tabs(n)    *)
(*           for n tab characters in front of them                          *)
(*   own   : the name of the function the line belongs to                   *)
(*   txt   : the text after the indentation, over the alphabet              *)
(*           "q" (a double quote), "x" (any other visible character)        *)
(*   colon : the line, right-stripped, ends with ':'                        *)
(* A documentation text is a string over "q", "x" and "n" (a newline).      *)
(***************************************************************************)
EXTENDS Integers, Sequences, FiniteSets, TLC

\* ------------------------------------------------------------------------
\* bounds
\* ------------------------------------------------------------------------
MaxFuncs == 2      \* functions in the scanned tree, all files together
MaxGen == 2        \* generator calls the operator asks for one target
MaxOrd == 3        \* functions of the file whose insertions are tried in every order
MaxEdit == 4       \* characters of a text the editor hands back
MaxSrc == 3        \* lines of a source text Target.signature is tried on
MaxScan == 2       \* functions of the trees the scan alone is tried on
MaxIn == 2         \* characters of a line typed at a prompt
MaxRuns == 2       \* runs of the command on one tree

Files == {1, 2}    \* the *.py files iter_python_files yields, in this order

\* ------------------------------------------------------------------------
\* strings
\* ------------------------------------------------------------------------
QQQ == <<"q", "q", "q">>

NoneDoc == [some |-> FALSE, txt |-> <<>>]      \* Optional[str]: None
Some(s) == [some |-> TRUE, txt |-> s]          \* Optional[str]: a str

StartsWith(s, p) == Len(s) >= Len(p) /\ SubSeq(s, 1, Len(p)) = p
EndsWith(s, p) == Len(s) >= Len(p) /\ SubSeq(s, Len(s) - Len(p) + 1, Len(s)) = p

\* str.splitlines() on a text whose only line boundary is "n"
RECURSIVE SplitLines(_)
SplitLines(s) ==
    IF s = <<>> THEN <<>>
    ELSE IF \E i \in 1..Len(s) : s[i] = "n"
         THEN LET i == CHOOSE j \in 1..Len(s) :
                           s[j] = "n" /\ \A m \in 1..(j - 1) : s[m] # "n"
              IN  <<SubSeq(s, 1, i - 1)>> \o SplitLines(SubSeq(s, i + 1, Len(s)))
         ELSE <<s>>

\* ------------------------------------------------------------------------
\* source files
\* ------------------------------------------------------------------------
Line(k, ind, own, txt, colon) ==
    [k |-> k, ind |-> ind, own |-> own, txt |-> txt, colon |-> colon]

BlankLine == Line("", 0, 0, <<>>, FALSE)       \* the str ""

\* n tab characters of leading white space, kept apart from the spaces
Tabs(n) == 100 * n

\* node.col_offset of a def line: the characters in front of "def"
Col(ind) == (ind \div Tabs(1)) + (ind % Tabs(1))

Shapes == {"plain", "wrapped", "documented", "method"}

\* the lines of one function definition of the given shape
FnLines(shape, name) ==
    CASE shape = "plain" ->         \* def f():           / body
           <<Line("def", 0, name, <<"x">>, TRUE),
             Line("body", 4, name, <<"x">>, FALSE)>>
      [] shape = "wrapped" ->       \* def f(             / a):   / body
           <<Line("def", 0, name, <<"x">>, FALSE),
             Line("sig", 4, name, <<"x">>, TRUE),
             Line("body", 4, name, <<"x">>, FALSE)>>
      [] shape = "documented" ->    \* def f():           / """x""" / body
           <<Line("def", 0, name, <<"x">>, TRUE),
             Line("body", 4, name, QQQ \o <<"x">> \o QQQ, FALSE),
             Line("body", 4, name, <<"x">>, FALSE)>>
      [] shape = "method" ->        \* class C:  / def f(self):  / body
           <<Line("class", 0, name, <<"x">>, TRUE),
             Line("def", 4, name, <<"x">>, TRUE),
             Line("body", 8, name, <<"x">>, FALSE)>>
      [] shape = "tabbed" ->        \* class C:  / <TAB>def f(self):  / <TAB><TAB>body
           <<Line("class", 0, name, <<"x">>, TRUE),
             Line("def", Tabs(1), name, <<"x">>, TRUE),
             Line("body", Tabs(2), name, <<"x">>, FALSE)>>
      [] shape = "async" ->         \* async def f():     / body
           <<Line("adef", 0, name, <<"x">>, TRUE),
             Line("body", 4, name, <<"x">>, FALSE)>>
      [] shape = "nested" ->        \* def f():  / def g():  / body  / return g
           <<Line("def", 0, name, <<"x">>, TRUE),
             Line("def", 4, name + 100, <<"x">>, TRUE),
             Line("body", 8, name + 100, <<"x">>, FALSE),
             Line("body", 4, name, <<"x">>, FALSE)>>
      [] shape = "decorated" ->     \* @d        / def f():  / body
           <<Line("deco", 0, name, <<"x">>, FALSE),
             Line("def", 0, name, <<"x">>, TRUE),
             Line("body", 4, name, <<"x">>, FALSE)>>
      [] shape = "broken" ->        \* def f(    / body
           <<Line("def", 0, name, <<"x">>, FALSE),
             Line("body", 4, name, <<"x">>, FALSE)>>

RECURSIVE FileLines(_, _, _)
FileLines(shapes, path, j) ==
    IF j > Len(shapes) THEN <<>>
    ELSE FnLines(shapes[j], 10 * path + j) \o FileLines(shapes, path, j + 1)

SeqsUpTo(S, n) == UNION {[1..m -> S] : m \in 0..n}

\* the trees the scan may meet: MaxFuncs functions at most, spread over the files
Layouts ==
    {l \in [Files -> SeqsUpTo(Shapes, MaxFuncs)] :
        Len(l[1]) + Len(l[2]) <= MaxFuncs}

\* more of them: async and nested functions, decorators, a file that does
\* not parse
ScanShapes == Shapes \cup {"async", "nested", "decorated", "broken"}

ScanLayouts ==
    {l \in [Files -> SeqsUpTo(ScanShapes, MaxScan)] :
        Len(l[1]) + Len(l[2]) <= MaxScan}

\* ------------------------------------------------------------------------
\* scan
\* ------------------------------------------------------------------------
Target(filepath, lineno, name, src) ==
    [filepath |-> filepath, lineno |-> lineno, name |-> name, src |-> src]

\* node.end_lineno: the last line of the block the def at line i opens
EndLineno(lines, i) ==
    CHOOSE j \in i..Len(lines) :
        /\ \A m \in (i + 1)..j : lines[m].ind > lines[i].ind
        /\ (j < Len(lines) => lines[j + 1].ind <= lines[i].ind)

\* the line that ends the header of the def at line i
HeaderEnd(lines, i) ==
    CHOOSE j \in i..Len(lines) :
        lines[j].colon /\ \A m \in i..(j - 1) : ~lines[m].colon

\* ast.get_docstring(node) is not None: the first statement of the body is
\* a string literal
HasDocstring(lines, i) ==
    LET b == HeaderEnd(lines, i) + 1
    IN  b <= EndLineno(lines, i) /\ StartsWith(lines[b].txt, QQQ)

\* Target.signature: the lines it joins, or ok = FALSE when it raises
Signature(src) ==
    LET defs == {n \in 1..Len(src) : src[n].k \in {"def", "adef"}}
    IN  IF defs = {} THEN [ok |-> FALSE, lines |-> <<>>]
        ELSE LET d == CHOOSE n \in defs : \A m \in defs : n <= m
                 ends == {n \in (d + 1)..Len(src) : src[n].colon}
                 e == IF ends = {} THEN Len(src)
                      ELSE CHOOSE n \in ends : \A m \in ends : n <= m
             IN  [ok |-> TRUE, lines |-> SubSeq(src, d, e)]

NoSnippet == [ok |-> FALSE, lines |-> <<>>]    \* snippet not assigned

ExtractFunctionSrc(lines, i) == SubSeq(lines, i, EndLineno(lines, i))

\* sorted(seq, key=lineno): ascending
RECURSIVE SortAsc(_)
SortAsc(S) ==
    IF S = {} THEN <<>>
    ELSE LET t == CHOOSE u \in S : \A v \in S : u.lineno <= v.lineno
         IN  <<t>> \o SortAsc(S \ {t})

\* ast.parse(source) does not raise SyntaxError: a header left open by its
\* def line is closed by a line of the parameter list, with nothing but
\* parameter lines and empty lines in between
Parses(lines) ==
    \A i \in 1..Len(lines) :
       (lines[i].k \in {"def", "adef"} /\ ~lines[i].colon) =>
          \E j \in (i + 1)..Len(lines) :
             /\ lines[j].k = "sig" /\ lines[j].colon
             /\ \A m \in (i + 1)..(j - 1) : lines[m].k \in {"sig", ""}

\* ast.walk(tree), the function nodes of it: breadth first, that is by
\* depth and then by line
RECURSIVE WalkFrom(_, _)
WalkFrom(lines, S) ==
    IF S = {} THEN <<>>
    ELSE LET n == CHOOSE u \in S :
                     \A v \in S : \/ lines[u].ind < lines[v].ind
                                   \/ (lines[u].ind = lines[v].ind /\ u <= v)
         IN  <<n>> \o WalkFrom(lines, S \ {n})

Walk(lines) ==
    WalkFrom(lines, {n \in 1..Len(lines) : lines[n].k \in {"def", "adef"}})

\* the list targets as the loop over ast.walk leaves it
WalkTargets(lines, path) ==
    LET nodes == SelectSeq(Walk(lines),
                           LAMBDA n : lines[n].k = "def" /\ ~HasDocstring(lines, n))
    IN  [i \in 1..Len(nodes) |->
            Target(path, nodes[i], lines[nodes[i]].own,
                   ExtractFunctionSrc(lines, nodes[i]))]

\* find_missing_docstrings returning targets as they are
FindMissingDocstringsUnsorted(lines, path) ==
    IF ~Parses(lines) THEN <<>>
    ELSE WalkTargets(lines, path)

FindMissingDocstrings(lines, path) ==
    IF ~Parses(lines) THEN <<>>
    ELSE LET targets == WalkTargets(lines, path)
         IN  SortAsc({targets[i] : i \in 1..Len(targets)})

\* ------------------------------------------------------------------------
\* file storage
\* ------------------------------------------------------------------------
NL == Line("\n", 0, 0, <<>>, FALSE)            \* the character "\n" of a file

\* "\n".join(lines) + "\n": a line that is the empty str leaves nothing
\* between its neighbours' newlines
RECURSIVE JoinLines(_)
JoinLines(lines) ==
    IF lines = <<>> THEN <<NL>>
    ELSE LET h == IF Head(lines).k = "" THEN <<>> ELSE <<Head(lines)>>
         IN  IF Len(lines) = 1 THEN h \o <<NL>>
             ELSE h \o <<NL>> \o JoinLines(Tail(lines))

\* read_text().splitlines()
RECURSIVE ReadLines(_)
ReadLines(text) ==
    IF text = <<>> THEN <<>>
    ELSE IF Head(text) = NL THEN <<BlankLine>> \o ReadLines(Tail(text))
    ELSE IF Len(text) = 1 THEN <<Head(text)>>
    ELSE <<Head(text)>> \o ReadLines(SubSeq(text, 3, Len(text)))

\* ------------------------------------------------------------------------
\* the collaborators' answers
\* ------------------------------------------------------------------------
\* what _generate_docstring may return (stripped): """x""" and x\nx
GenDocs == {QQQ \o <<"x">> \o QQQ, <<"x", "n", "x">>}

\* what the editor, or the inline collector, may hand back (stripped)
EditorTexts == {<<"x">>}

EditDocstring(edited) ==
    IF StartsWith(edited, QQQ) /\ EndsWith(edited, QQQ)
    THEN edited
    ELSE QQQ \o <<"n">> \o edited \o <<"n">> \o QQQ

\* ------------------------------------------------------------------------
\* insertion
\* ------------------------------------------------------------------------
\* _insert_docstring assigning to lines[insert_at:insert_at + 1]
InsertDocstringOverwrites(lines, tgt, doc) ==
    LET docLines == SplitLines(doc)
        indented == [i \in 1..Len(docLines) |->
                        Line("ins", lines[tgt.lineno].ind + 4, tgt.name, docLines[i], FALSE)]
    IN  SubSeq(lines, 1, tgt.lineno)
        \o indented \o <<Line("", 0, tgt.name, <<>>, FALSE)>>
        \o SubSeq(lines, tgt.lineno + 2, Len(lines))

\* _insert_docstring without the trailing [""]
InsertDocstringNoBlank(lines, tgt, doc) ==
    LET docLines == SplitLines(doc)
        indented == [i \in 1..Len(docLines) |->
                        Line("ins", lines[tgt.lineno].ind + 4, tgt.name, docLines[i], FALSE)]
    IN  SubSeq(lines, 1, tgt.lineno) \o indented
        \o SubSeq(lines, tgt.lineno + 1, Len(lines))

\* _insert_docstring returning early on an empty doc
InsertDocstringSkipsEmpty(lines, tgt, doc) ==
    IF doc = <<>> THEN lines
    ELSE LET docLines == SplitLines(doc)
             indented == [i \in 1..Len(docLines) |->
                             Line("ins", lines[tgt.lineno].ind + 4, tgt.name, docLines[i], FALSE)]
         IN  SubSeq(lines, 1, tgt.lineno)
             \o indented \o <<Line("", 0, tgt.name, <<>>, FALSE)>>
             \o SubSeq(lines, tgt.lineno + 1, Len(lines))

\* _insert_docstring indenting by the def line as the scan saw it
InsertDocstringScanIndent(lines, tgt, doc) ==
    LET docLines == SplitLines(doc)
        indented == [i \in 1..Len(docLines) |->
                        Line("ins", tgt.src[1].ind + 4, tgt.name, docLines[i], FALSE)]
    IN  SubSeq(lines, 1, tgt.lineno)
        \o indented \o <<Line("", 0, tgt.name, <<>>, FALSE)>>
        \o SubSeq(lines, tgt.lineno + 1, Len(lines))

InsertDocstring(lines, tgt, doc) ==
    LET def_line == lines[tgt.lineno]
        indent_spaces == def_line.ind + 4
        docLines == SplitLines(doc)
        indented == [i \in 1..Len(docLines) |->
                        Line("ins", indent_spaces, tgt.name, docLines[i], FALSE)]
        insert_at == tgt.lineno
    IN  SubSeq(lines, 1, insert_at)
        \o indented \o <<Line("", 0, tgt.name, <<>>, FALSE)>>
        \o SubSeq(lines, insert_at + 1, Len(lines))

\* str.strip() of a documentation text
RECURSIVE StripDoc(_)
StripDoc(s) ==
    IF s = <<>> THEN s
    ELSE IF Head(s) = "n" THEN StripDoc(Tail(s))
    ELSE IF s[Len(s)] = "n" THEN StripDoc(SubSeq(s, 1, Len(s) - 1))
    ELSE s

\* in_place.Target
InPlaceTarget(lineno, col, src, name) ==
    [lineno |-> lineno, col |-> col, src |-> src, name |-> name]

\* sorted(..., key=lineno, reverse=True) of nodes with distinct line numbers
RECURSIVE DescFrom(_)
DescFrom(S) ==
    IF S = {} THEN <<>>
    ELSE LET n == CHOOSE u \in S : \A v \in S : u >= v
         IN  <<n>> \o DescFrom(S \ {n})

\* in_place.find_targets
FindTargets(lines) ==
    LET walked == SelectSeq(Walk(lines),
                            LAMBDA n : lines[n].k = "def" /\ ~HasDocstring(lines, n))
        nodes == DescFrom({walked[i] : i \in 1..Len(walked)})
    IN  [i \in 1..Len(nodes) |->
            InPlaceTarget(nodes[i], Col(lines[nodes[i]].ind),
                          ExtractFunctionSrc(lines, nodes[i]), lines[nodes[i]].own)]

\* in_place.insert_docstring
InPlaceInsertDocstring(lines, tgt, doc) ==
    LET indent == tgt.col + 4
        docLines == SplitLines(doc)
        indented_doc == [i \in 1..Len(docLines) |->
                            Line("ins", indent, tgt.name, docLines[i], FALSE)]
        insert_at == tgt.lineno
    IN  SubSeq(lines, 1, insert_at)
        \o indented_doc \o <<Line("", 0, tgt.name, <<>>, FALSE)>>
        \o SubSeq(lines, insert_at + 1, Len(lines))

\* add_docstrings._insert_docstring
AddInsertDocstring(lines, tgt, doc) ==
    LET indent_spaces == 4
        docLines == SplitLines(doc)
        indented == [i \in 1..Len(docLines) |->
                        Line("ins", indent_spaces, tgt.name, docLines[i], FALSE)]
        insert_at == tgt.lineno
    IN  SubSeq(lines, 1, insert_at)
        \o indented \o <<Line("", 0, tgt.name, <<>>, FALSE)>>
        \o SubSeq(lines, insert_at + 1, Len(lines))

\* the line at (1-based) position n of the buffer is the def line of name
IsDefOf(lines, n, name) ==
    n \in 1..Len(lines) /\ lines[n].k = "def" /\ lines[n].own = name

\* sorted(td_list, key=lineno) without reverse=True
RECURSIVE SortDescAscending(_)
SortDescAscending(td) ==
    IF td = <<>> THEN <<>>
    ELSE LET i == CHOOSE j \in 1..Len(td) :
                      \A m \in 1..Len(td) : td[j].tgt.lineno <= td[m].tgt.lineno
         IN  <<td[i]>>
             \o SortDescAscending(SubSeq(td, 1, i - 1) \o SubSeq(td, i + 1, Len(td)))

\* sorted(td_list, key=lineno, reverse=True)
RECURSIVE SortDesc(_)
SortDesc(td) ==
    IF td = <<>> THEN <<>>
    ELSE LET i == CHOOSE j \in 1..Len(td) :
                      /\ \A m \in 1..Len(td) : td[m].tgt.lineno <= td[j].tgt.lineno
                      /\ \A m \in 1..(j - 1) : td[m].tgt.lineno < td[j].tgt.lineno
         IN  <<td[i]>> \o SortDesc(SubSeq(td, 1, i - 1) \o SubSeq(td, i + 1, Len(td)))

\* ------------------------------------------------------------------------
\* dict[Target, Optional[str]] and dict[Path, list], in insertion order
\* ------------------------------------------------------------------------
DictSet(d, t, doc) ==
    IF \E i \in 1..Len(d) : d[i].tgt = t
    THEN [i \in 1..Len(d) |-> IF d[i].tgt = t THEN [tgt |-> t, doc |-> doc] ELSE d[i]]
    ELSE Append(d, [tgt |-> t, doc |-> doc])

\* grouped with one bucket for all files, under the first path
GroupedOneBucket(items) ==
    LET acc == SelectSeq(items, LAMBDA it : it.doc.some)
    IN  IF acc = <<>> THEN <<>>
        ELSE <<[path |-> acc[1].tgt.filepath,
                td |-> [i \in 1..Len(acc) |->
                           [tgt |-> acc[i].tgt, doc |-> acc[i].doc.txt]]]>>

\* grouped built without the "if doc is None: continue"
RECURSIVE GroupedKeepsSkipped(_)
GroupedKeepsSkipped(items) ==
    IF items = <<>> THEN <<>>
    ELSE LET g == GroupedKeepsSkipped(SubSeq(items, 1, Len(items) - 1))
             it == items[Len(items)]
             e == [tgt |-> it.tgt, doc |-> it.doc.txt]
         IN  IF \E i \in 1..Len(g) : g[i].path = it.tgt.filepath
             THEN [i \in 1..Len(g) |->
                      IF g[i].path = it.tgt.filepath
                      THEN [path |-> g[i].path, td |-> Append(g[i].td, e)]
                      ELSE g[i]]
             ELSE Append(g, [path |-> it.tgt.filepath, td |-> <<e>>])

RECURSIVE Grouped(_)
Grouped(items) ==
    IF items = <<>> THEN <<>>
    ELSE LET g == Grouped(SubSeq(items, 1, Len(items) - 1))
             it == items[Len(items)]
             e == [tgt |-> it.tgt, doc |-> it.doc.txt]
         IN  IF ~it.doc.some THEN g
             ELSE IF \E i \in 1..Len(g) : g[i].path = it.tgt.filepath
             THEN [i \in 1..Len(g) |->
                      IF g[i].path = it.tgt.filepath
                      THEN [path |-> g[i].path, td |-> Append(g[i].td, e)]
                      ELSE g[i]]
             ELSE Append(g, [path |-> it.tgt.filepath, td |-> <<e>>])

\* ------------------------------------------------------------------------
\* state
\* ------------------------------------------------------------------------
VARIABLES
    disk,        \* the text of every file
    pc,          \* where main() stands
    missing,     \* main: the list of targets
    idx,         \* _interactive_session: the position of the for loop (1-based)
    results,     \* _interactive_session: the dict it returns (accepted_map)
    suggestion,  \* _interactive_session: the local of that name
    snippet,     \* _interactive_session: the local of that name
    grouped,     \* main: the dict path -> [(tgt, doc)]
    gi,          \* main: the position of the loop over grouped.items()
    src_lines,   \* main: the line buffer of the file in progress
    todo,        \* main: what the loop over sorted(td_list) has still to visit
    genLog,      \* history: the outcomes of the generator calls for the target
                 \*          generate was last chosen for
    quit,        \* history: the operator answered q
    atQuit,      \* history: results when the operator answered q
    writes,      \* history: the write_text calls, with the insertions each holds
    log,         \* history: the insertions into the buffer in progress: the
                 \*          target, and whether its def line was at lineno
    stdin,       \* the lines typed and not yet read by input(), where _prompt
                 \* is followed line by line
    ans,         \* _prompt: the local of that name
    runs         \* the runs without -i that have ended: the flags each was
                 \* started with, its exit status, the report file it wrote
                 \* and what it printed

vars == <<disk, pc, missing, idx, results, suggestion, snippet, grouped, gi, src_lines,
          todo, genLog, quit, atQuit, writes, log, stdin, ans, runs>>

sessionVars == <<idx, results, suggestion, snippet, genLog, quit, atQuit>>
applyVars == <<grouped, gi, src_lines, todo, writes, log>>
promptVars == <<stdin, ans>>
auditVars == <<runs>>

SessionPcs == {"present", "prompt", "generate", "review", "generror"}

Init ==
    /\ \E l \in Layouts : disk = [f \in Files |-> JoinLines(FileLines(l[f], f, 1))]
    /\ pc = "start"
    /\ missing = <<>>
    /\ idx = 0
    /\ results = <<>>
    /\ suggestion = NoneDoc
    /\ snippet = NoSnippet
    /\ grouped = <<>>
    /\ gi = 0
    /\ src_lines = <<>>
    /\ todo = <<>>
    /\ genLog = <<>>
    /\ quit = FALSE
    /\ atQuit = <<>>
    /\ writes = <<>>
    /\ log = <<>>
    /\ stdin = <<>>
    /\ ans = <<>>
    /\ runs = <<>>

\* ------------------------------------------------------------------------
\* main: the scan
\* ------------------------------------------------------------------------
\* a scan that gives up at the first file that does not parse
ScanFilesStopsAtFailure(d) ==
    IF ~Parses(ReadLines(d[1])) THEN <<>>
    ELSE FindMissingDocstrings(ReadLines(d[1]), 1)
           \o FindMissingDocstrings(ReadLines(d[2]), 2)

\* missing.extend(find_missing_docstrings(...)) for each file
ScanFiles(d) ==
    FindMissingDocstrings(ReadLines(d[1]), 1)
      \o FindMissingDocstrings(ReadLines(d[2]), 2)

\* the scan of a run with -i
Scan ==
    /\ pc = "start"
    /\ missing' = ScanFiles(disk)
    /\ IF missing' = <<>>
       THEN pc' = "exit" /\ idx' = idx            \* No missing docstrings found
       ELSE pc' = "present" /\ idx' = 1           \* _interactive_session(missing)
    /\ UNCHANGED <<disk, results, suggestion, genLog, quit, atQuit>>
    /\ UNCHANGED applyVars
    /\ UNCHANGED snippet
    /\ UNCHANGED promptVars
    /\ UNCHANGED auditVars

\* missing.sort(key=lambda t: (t.filepath, t.lineno)): stable
RECURSIVE SortByFileLine(_)
SortByFileLine(seq) ==
    IF seq = <<>> THEN <<>>
    ELSE LET Before(a, b) == \/ a.filepath < b.filepath
                             \/ (a.filepath = b.filepath /\ a.lineno < b.lineno)
             i == CHOOSE j \in 1..Len(seq) :
                     /\ \A m \in 1..Len(seq) : ~Before(seq[m], seq[j])
                     /\ \A m \in 1..(j - 1) : Before(seq[j], seq[m])
         IN  <<seq[i]>>
             \o SortByFileLine(SubSeq(seq, 1, i - 1) \o SubSeq(seq, i + 1, Len(seq)))


\* lines of the audit: f"{filepath}:{lineno}:{name}" for every target
ReportLines(found) ==
    [i \in 1..Len(found) |->
        [filepath |-> found[i].filepath, lineno |-> found[i].lineno,
         name |-> found[i].name]]

NoReport == [some |-> FALSE, txt |-> <<>>]     \* no report file written

\* what a run without -i prints
Console(quiet, report, found) ==
    IF quiet THEN <<>>
    ELSE IF found = <<>> THEN <<"No missing docstrings found.">>
    ELSE (IF report THEN <<"Report written">> ELSE <<>>)
         \o <<ReportLines(found)>>

\* an audit that reports and leaves with sys.exit(0)
ScanOnlyExitsZero ==
    /\ pc = "start"
    /\ missing' = SortByFileLine(ScanFiles(disk))
    /\ pc' = "exit"
    /\ \E quiet \in BOOLEAN, report \in BOOLEAN :
          runs' = Append(runs, [quiet |-> quiet, report |-> report, status |-> 0,
                                written |-> NoReport,
                                console |-> Console(quiet, report, missing')])
    /\ UNCHANGED <<disk, idx, results, suggestion, snippet, genLog, quit, atQuit>>
    /\ UNCHANGED applyVars
    /\ UNCHANGED promptVars

\* a --quiet that silences the report file as well
ScanOnlyQuietSkipsReport ==
    /\ pc = "start"
    /\ missing' = SortByFileLine(ScanFiles(disk))
    /\ pc' = IF missing' = <<>> THEN "exit" ELSE "exit1"
    /\ \E quiet \in BOOLEAN, report \in BOOLEAN :
          runs' = Append(runs,
                    [quiet |-> quiet, report |-> report,
                     status |-> IF missing' = <<>> THEN 0 ELSE 1,
                     written |-> IF missing' # <<>> /\ report /\ ~quiet
                                 THEN [some |-> TRUE, txt |-> ReportLines(missing')]
                                 ELSE NoReport,
                     console |-> Console(quiet, report, missing')])
    /\ UNCHANGED <<disk, idx, results, suggestion, snippet, genLog, quit, atQuit>>
    /\ UNCHANGED applyVars
    /\ UNCHANGED promptVars

\* the scan of a run without -i, started with or without --quiet and
\* --report: sys.exit(0) when nothing is missing, else the sorted list is
\* written to the report file if one was asked for, printed unless --quiet,
\* and the run ends with sys.exit(1)
ScanOnly ==
    /\ pc = "start"
    /\ missing' = SortByFileLine(ScanFiles(disk))
    /\ pc' = IF missing' = <<>> THEN "exit" ELSE "exit1"
    /\ \E quiet \in BOOLEAN, report \in BOOLEAN :
          runs' = Append(runs,
                    [quiet |-> quiet, report |-> report,
                     status |-> IF missing' = <<>> THEN 0 ELSE 1,
                     written |-> IF missing' # <<>> /\ report
                                 THEN [some |-> TRUE, txt |-> ReportLines(missing')]
                                 ELSE NoReport,
                     console |-> Console(quiet, report, missing')])
    /\ UNCHANGED <<disk, idx, results, suggestion, snippet, genLog, quit, atQuit>>
    /\ UNCHANGED applyVars
    /\ UNCHANGED promptVars

\* the status the process ends with
ExitStatus == IF pc \in {"exit1", "raised"} THEN 1 ELSE 0

\* ------------------------------------------------------------------------
\* _interactive_session
\* ------------------------------------------------------------------------
tgt == missing[idx]

\* the head of the for loop, in a run without --show-body:
\* snippet = tgt.signature, printed before the first prompt
Present ==
    /\ pc = "present"
    /\ snippet' = Signature(tgt.src)
    /\ pc' = IF snippet'.ok THEN "prompt" ELSE "raised"
    /\ UNCHANGED <<disk, missing, idx, results, suggestion, genLog, quit, atQuit>>
    /\ UNCHANGED applyVars
    /\ UNCHANGED promptVars
    /\ UNCHANGED auditVars

\* a loop that does not move on to the next target
NextTargetStays ==
    /\ idx' = idx /\ pc' = "present"
    /\ UNCHANGED <<genLog, quit, atQuit>>

\* continue / break out of the while loop: the for loop takes the next target
NextTarget ==
    /\ IF idx < Len(missing)
       THEN idx' = idx + 1 /\ pc' = "present"
       ELSE idx' = idx /\ pc' = "returned"
    /\ UNCHANGED <<genLog, quit, atQuit>>

\* a quit that drops what was recorded
QuitSessionDiscards ==
    /\ pc' = "returned"
    /\ quit' = TRUE
    /\ atQuit' = results
    /\ results' = <<>>
    /\ UNCHANGED <<idx, suggestion, genLog>>

\* break at the first prompt, return results at the two others
QuitSession ==
    /\ pc' = "returned"
    /\ quit' = TRUE
    /\ atQuit' = results
    /\ UNCHANGED <<idx, results, suggestion, genLog>>

ChooseQuit ==
    /\ pc = "prompt"
    /\ QuitSession
    /\ UNCHANGED <<disk, missing>> /\ UNCHANGED applyVars
    /\ UNCHANGED snippet
    /\ UNCHANGED promptVars
    /\ UNCHANGED auditVars

\* a skip that asks the generator first
ChooseSkipGenerates ==
    /\ pc = "prompt"
    /\ results' = DictSet(results, tgt, NoneDoc)
    /\ IF idx < Len(missing)
       THEN idx' = idx + 1 /\ pc' = "present"
       ELSE idx' = idx /\ pc' = "returned"
    /\ \E d \in GenDocs : genLog' = Append(genLog, Some(d))
    /\ UNCHANGED <<quit, atQuit>>
    /\ UNCHANGED <<disk, missing, suggestion>> /\ UNCHANGED applyVars
    /\ UNCHANGED snippet
    /\ UNCHANGED promptVars
    /\ UNCHANGED auditVars

ChooseSkip ==
    /\ pc = "prompt"
    /\ results' = DictSet(results, tgt, NoneDoc)
    /\ NextTarget
    /\ UNCHANGED <<disk, missing, suggestion>> /\ UNCHANGED applyVars
    /\ UNCHANGED snippet
    /\ UNCHANGED promptVars
    /\ UNCHANGED auditVars

\* action == "m": results[tgt] = _edit_docstring(), the editor's text in texts
ManualFrom(texts) ==
    /\ pc = "prompt"
    /\ \E edited \in texts :
          results' = DictSet(results, tgt, Some(EditDocstring(edited)))
    /\ NextTarget
    /\ UNCHANGED <<disk, missing, suggestion>> /\ UNCHANGED applyVars
    /\ UNCHANGED snippet
    /\ UNCHANGED promptVars
    /\ UNCHANGED auditVars

ChooseManual == ManualFrom(EditorTexts)

ChooseGenerate ==
    /\ pc = "prompt"
    /\ pc' = "generate"
    /\ genLog' = <<>>
    /\ UNCHANGED <<disk, missing, idx, results, suggestion, quit, atQuit>>
    /\ UNCHANGED applyVars
    /\ UNCHANGED snippet
    /\ UNCHANGED promptVars
    /\ UNCHANGED auditVars

\* a generator call whose result is dropped when a suggestion is at hand
GenerateOkKeepsFirst ==
    /\ pc = "generate"
    /\ \E d \in GenDocs :
          /\ suggestion' = IF \E i \in 1..Len(genLog) : genLog[i].some
                           THEN suggestion ELSE Some(d)
          /\ genLog' = Append(genLog, Some(d))
    /\ pc' = "review"
    /\ UNCHANGED <<disk, missing, idx, results, quit, atQuit>>
    /\ UNCHANGED applyVars
    /\ UNCHANGED snippet
    /\ UNCHANGED promptVars
    /\ UNCHANGED auditVars

\* suggestion = _generate_docstring(tgt.src) returns
GenerateOk ==
    /\ pc = "generate"
    /\ \E d \in GenDocs :
          /\ suggestion' = Some(d)
          /\ genLog' = Append(genLog, Some(d))
    /\ pc' = "review"
    /\ UNCHANGED <<disk, missing, idx, results, quit, atQuit>>
    /\ UNCHANGED applyVars
    /\ UNCHANGED snippet
    /\ UNCHANGED promptVars
    /\ UNCHANGED auditVars

\* a generator error that is not caught: the session is over
GenerateFailsAborts ==
    /\ pc = "generate"
    /\ genLog' = Append(genLog, NoneDoc)
    /\ pc' = "returned"
    /\ UNCHANGED <<disk, missing, idx, results, suggestion, quit, atQuit>>
    /\ UNCHANGED applyVars
    /\ UNCHANGED snippet
    /\ UNCHANGED promptVars
    /\ UNCHANGED auditVars

\* _generate_docstring(tgt.src) raises: except Exception
GenerateFails ==
    /\ pc = "generate"
    /\ genLog' = Append(genLog, NoneDoc)
    /\ pc' = "generror"
    /\ UNCHANGED <<disk, missing, idx, results, suggestion, quit, atQuit>>
    /\ UNCHANGED applyVars
    /\ UNCHANGED snippet
    /\ UNCHANGED promptVars
    /\ UNCHANGED auditVars

Retry ==
    /\ pc = "generror"
    /\ Len(genLog) < MaxGen
    /\ pc' = "generate"
    /\ UNCHANGED <<disk, missing>> /\ UNCHANGED sessionVars /\ UNCHANGED applyVars
    /\ UNCHANGED promptVars
    /\ UNCHANGED auditVars

\* a skip at the error prompt that records the suggestion at hand
ErrorSkipKeepsSuggestion ==
    /\ pc = "generror"
    /\ results' = DictSet(results, tgt, suggestion)
    /\ NextTarget
    /\ UNCHANGED <<disk, missing, suggestion>> /\ UNCHANGED applyVars
    /\ UNCHANGED snippet
    /\ UNCHANGED promptVars
    /\ UNCHANGED auditVars

\* retry == "s": suggestion = None; break
ErrorSkip ==
    /\ pc = "generror"
    /\ suggestion' = NoneDoc
    /\ NextTarget
    /\ UNCHANGED <<disk, missing, results>> /\ UNCHANGED applyVars
    /\ UNCHANGED snippet
    /\ UNCHANGED promptVars
    /\ UNCHANGED auditVars

ErrorQuit ==
    /\ pc = "generror"
    /\ QuitSession
    /\ UNCHANGED <<disk, missing>> /\ UNCHANGED applyVars
    /\ UNCHANGED snippet
    /\ UNCHANGED promptVars
    /\ UNCHANGED auditVars

\* accept that inserts and writes at once
AcceptAndWrite ==
    /\ pc = "review"
    /\ results' = DictSet(results, tgt, suggestion)
    /\ disk' = [disk EXCEPT ![tgt.filepath] =
                   JoinLines(InsertDocstring(ReadLines(disk[tgt.filepath]), tgt,
                                             suggestion.txt))]
    /\ NextTarget
    /\ UNCHANGED <<missing, suggestion>> /\ UNCHANGED applyVars
    /\ UNCHANGED snippet
    /\ UNCHANGED promptVars
    /\ UNCHANGED auditVars

Accept ==
    /\ pc = "review"
    /\ results' = DictSet(results, tgt, suggestion)
    /\ NextTarget
    /\ UNCHANGED <<disk, missing, suggestion>> /\ UNCHANGED applyVars
    /\ UNCHANGED snippet
    /\ UNCHANGED promptVars
    /\ UNCHANGED auditVars

\* choice == "e": results[tgt] = _edit_docstring(suggestion)
EditFrom(texts) ==
    /\ pc = "review"
    /\ \E edited \in texts :
          results' = DictSet(results, tgt, Some(EditDocstring(edited)))
    /\ NextTarget
    /\ UNCHANGED <<disk, missing, suggestion>> /\ UNCHANGED applyVars
    /\ UNCHANGED snippet
    /\ UNCHANGED promptVars
    /\ UNCHANGED auditVars

Edit == EditFrom(EditorTexts)

ReviewSkip ==
    /\ pc = "review"
    /\ results' = DictSet(results, tgt, NoneDoc)
    /\ NextTarget
    /\ UNCHANGED <<disk, missing, suggestion>> /\ UNCHANGED applyVars
    /\ UNCHANGED snippet
    /\ UNCHANGED promptVars
    /\ UNCHANGED auditVars

\* a quit at the review prompt that keeps the suggestion on display
ReviewQuitAccepts ==
    /\ pc = "review"
    /\ pc' = "returned"
    /\ quit' = TRUE
    /\ atQuit' = results
    /\ results' = DictSet(results, tgt, suggestion)
    /\ UNCHANGED <<idx, suggestion, genLog>>
    /\ UNCHANGED <<disk, missing>> /\ UNCHANGED applyVars
    /\ UNCHANGED snippet
    /\ UNCHANGED promptVars
    /\ UNCHANGED auditVars

ReviewQuit ==
    /\ pc = "review"
    /\ QuitSession
    /\ UNCHANGED <<disk, missing>> /\ UNCHANGED applyVars
    /\ UNCHANGED snippet
    /\ UNCHANGED promptVars
    /\ UNCHANGED auditVars

\* a regenerate that starts the count of the rounds anew
RegenerateForgets ==
    /\ pc = "review"
    /\ pc' = "generate"
    /\ genLog' = <<>>
    /\ UNCHANGED <<disk, missing, idx, results, suggestion, snippet, quit, atQuit>>
    /\ UNCHANGED applyVars
    /\ UNCHANGED promptVars
    /\ UNCHANGED auditVars

\* choice == "r": round the while loop again; the bound on the rounds is
\* the operator's, who asks for finitely many
Regenerate ==
    /\ pc = "review"
    /\ Len(genLog) < MaxGen
    /\ pc' = "generate"
    /\ UNCHANGED <<disk, missing>> /\ UNCHANGED sessionVars /\ UNCHANGED applyVars
    /\ UNCHANGED promptVars
    /\ UNCHANGED auditVars

\* ------------------------------------------------------------------------
\* main: apply
\* ------------------------------------------------------------------------
\* if not accepted_map: exit; else build grouped and enter the loop over it
GroupAccepted ==
    /\ pc = "returned"
    /\ IF results = <<>>
       THEN /\ pc' = "exit"                       \* No changes made.
            /\ UNCHANGED <<grouped, gi>>
       ELSE /\ grouped' = Grouped(results)
            /\ gi' = 1
            /\ pc' = IF grouped' = <<>> THEN "done" ELSE "load"
    /\ suggestion' = NoneDoc /\ genLog' = <<>>   \* the session's frame is gone
    /\ snippet' = NoSnippet
    /\ UNCHANGED <<disk, missing, src_lines, todo, writes, log>>
    /\ UNCHANGED <<idx, results, quit, atQuit>>
    /\ UNCHANGED promptVars
    /\ UNCHANGED auditVars

\* src_lines = Path(path).read_text().splitlines(); sorted(td_list, ...)
LoadFile ==
    /\ pc = "load"
    /\ src_lines' = ReadLines(disk[grouped[gi].path])
    /\ todo' = SortDesc(grouped[gi].td)
    /\ log' = <<>>
    /\ pc' = "insert"
    /\ UNCHANGED <<disk, missing, grouped, gi, writes>>
    /\ UNCHANGED sessionVars
    /\ UNCHANGED promptVars
    /\ UNCHANGED auditVars

\* one iteration of the inner loop: _insert_docstring(src_lines, tgt, doc)
InsertNext ==
    /\ pc = "insert"
    /\ todo # <<>>
    /\ Head(todo).tgt.lineno <= Len(src_lines)
    /\ src_lines' = InsertDocstring(src_lines, Head(todo).tgt, Head(todo).doc)
    /\ todo' = Tail(todo)
    /\ log' = Append(log, [name |-> Head(todo).tgt.name,
                            landed |-> IsDefOf(src_lines, Head(todo).tgt.lineno,
                                               Head(todo).tgt.name)])
    /\ UNCHANGED <<disk, pc, missing, grouped, gi, writes>>
    /\ UNCHANGED sessionVars
    /\ UNCHANGED promptVars
    /\ UNCHANGED auditVars

\* a loop over the files that writes the last buffer only
WriteFileLastOnly ==
    /\ pc = "insert"
    /\ todo = <<>>
    /\ IF gi < Len(grouped)
       THEN /\ gi' = gi + 1 /\ pc' = "load"
            /\ UNCHANGED <<disk, writes>>
       ELSE /\ gi' = gi /\ pc' = "done"
            /\ disk' = [disk EXCEPT ![grouped[gi].path] = JoinLines(src_lines)]
            /\ writes' = Append(writes, [path |-> grouped[gi].path, ins |-> log])
    /\ UNCHANGED <<missing, grouped, src_lines, todo, log>>
    /\ UNCHANGED sessionVars
    /\ UNCHANGED promptVars
    /\ UNCHANGED auditVars

\* a write that does not wait for the end of the inner loop
WriteFileEarly ==
    /\ pc = "insert"
    /\ disk' = [disk EXCEPT ![grouped[gi].path] = JoinLines(src_lines)]
    /\ writes' = Append(writes, [path |-> grouped[gi].path, ins |-> log])
    /\ IF gi < Len(grouped)
       THEN gi' = gi + 1 /\ pc' = "load"
       ELSE gi' = gi /\ pc' = "done"
    /\ UNCHANGED <<missing, grouped, src_lines, todo, log>>
    /\ UNCHANGED sessionVars
    /\ UNCHANGED promptVars
    /\ UNCHANGED auditVars

\* Path(path).write_text("\n".join(src_lines) + "\n"), then the next file
WriteFile ==
    /\ pc = "insert"
    /\ todo = <<>>
    /\ disk' = [disk EXCEPT ![grouped[gi].path] = JoinLines(src_lines)]
    /\ writes' = Append(writes, [path |-> grouped[gi].path, ins |-> log])
    /\ IF gi < Len(grouped)
       THEN gi' = gi + 1 /\ pc' = "load"
       ELSE gi' = gi /\ pc' = "done"
    /\ UNCHANGED <<missing, grouped, src_lines, todo, log>>
    /\ UNCHANGED sessionVars
    /\ UNCHANGED promptVars
    /\ UNCHANGED auditVars

Next ==
    \/ Scan
    \/ Present
    \/ ChooseQuit \/ ChooseSkip \/ ChooseManual \/ ChooseGenerate
    \/ GenerateOk \/ GenerateFails
    \/ Retry \/ ErrorSkip \/ ErrorQuit
    \/ Accept \/ Edit \/ ReviewSkip \/ ReviewQuit \/ Regenerate
    \/ GroupAccepted \/ LoadFile \/ InsertNext \/ WriteFile

Spec == Init /\ [][Next]_vars

\* ------------------------------------------------------------------------
\* the session with an operator who answers every prompt and a generator
\* that returns or raises at every call
\* ------------------------------------------------------------------------
SessionStep ==
    \/ Present
    \/ ChooseQuit \/ ChooseSkip \/ ChooseManual \/ ChooseGenerate
    \/ GenerateOk \/ GenerateFails
    \/ Retry \/ ErrorSkip \/ ErrorQuit
    \/ Accept \/ Edit \/ ReviewSkip \/ ReviewQuit \/ Regenerate

NextSession == Scan \/ SessionStep

SpecLive == Init /\ [][NextSession]_vars /\ WF_vars(SessionStep)

\* ------------------------------------------------------------------------
\* apply on files that another program shortened after the scan
\* ------------------------------------------------------------------------
\* _interactive_session has returned: every target accepted or skipped
InitChange ==
    /\ \E l \in Layouts : disk = [f \in Files |-> JoinLines(FileLines(l[f], f, 1))]
    /\ missing = ScanFiles(disk)
    /\ missing # <<>>
    /\ \E docs \in [1..Len(missing) -> {NoneDoc} \cup {Some(d) : d \in GenDocs}] :
          results = [i \in 1..Len(missing) |-> [tgt |-> missing[i], doc |-> docs[i]]]
    /\ pc = "returned"
    /\ idx = Len(missing)
    /\ suggestion = NoneDoc
    /\ snippet = NoSnippet
    /\ grouped = <<>>
    /\ gi = 0
    /\ src_lines = <<>>
    /\ todo = <<>>
    /\ genLog = <<>>
    /\ quit = FALSE
    /\ atQuit = <<>>
    /\ writes = <<>>
    /\ log = <<>>
    /\ stdin = <<>>
    /\ ans = <<>>
    /\ runs = <<>>

\* the file loses its last lines before main() reads it again
Truncate ==
    /\ pc = "returned"
    /\ \E f \in Files :
          LET lines == ReadLines(disk[f])
          IN  \E n \in 0..(Len(lines) - 1) :
                 disk' = [disk EXCEPT ![f] = JoinLines(SubSeq(lines, 1, n))]
    /\ UNCHANGED <<pc, missing>> /\ UNCHANGED sessionVars /\ UNCHANGED applyVars
    /\ UNCHANGED promptVars
    /\ UNCHANGED auditVars

\* a failing insertion whose buffer is written all the same
InsertRaisesFlushes ==
    /\ pc = "insert"
    /\ todo # <<>>
    /\ Head(todo).tgt.lineno > Len(src_lines)
    /\ disk' = [disk EXCEPT ![grouped[gi].path] = JoinLines(src_lines)]
    /\ writes' = Append(writes, [path |-> grouped[gi].path, ins |-> log])
    /\ pc' = "raised"
    /\ UNCHANGED <<missing, grouped, gi, src_lines, todo, log>>
    /\ UNCHANGED sessionVars
    /\ UNCHANGED promptVars
    /\ UNCHANGED auditVars

\* def_line = lines[tgt.lineno - 1] raises IndexError, which nothing catches
InsertRaises ==
    /\ pc = "insert"
    /\ todo # <<>>
    /\ Head(todo).tgt.lineno > Len(src_lines)
    /\ pc' = "raised"
    /\ UNCHANGED <<disk, missing>> /\ UNCHANGED sessionVars /\ UNCHANGED applyVars
    /\ UNCHANGED promptVars
    /\ UNCHANGED auditVars

NextChange ==
    \/ Truncate
    \/ GroupAccepted \/ LoadFile \/ InsertNext \/ InsertRaises \/ WriteFile

SpecChange == InitChange /\ [][NextChange]_vars

\* ------------------------------------------------------------------------
\* the insertions of one file, applied in every order
\* ------------------------------------------------------------------------
\* documentation texts of 0, 1, 2 and 3 lines
OrdDocs == GenDocs \cup {<<>>, EditDocstring(<<"x">>)}

Perms(seq) ==
    {[i \in 1..Len(seq) |-> seq[p[i]]] : p \in Permutations(1..Len(seq))}

\* main() stands in front of the inner loop of file 1, every target of the
\* file accepted, with the (tgt, doc) pairs in an arbitrary order
InitOrder ==
    \E shapes \in SeqsUpTo(Shapes, MaxOrd) :
      LET lines == FileLines(shapes, 1, 1)
          found == FindMissingDocstrings(lines, 1)
      IN  /\ found # <<>>
          /\ disk = [f \in Files |-> IF f = 1 THEN JoinLines(lines) ELSE <<NL>>]
          /\ missing = found
          /\ idx = Len(found)
          /\ \E docs \in [1..Len(found) -> OrdDocs] :
                results = [i \in 1..Len(found) |->
                              [tgt |-> found[i], doc |-> Some(docs[i])]]
          /\ grouped = Grouped(results)
          /\ gi = 1
          /\ src_lines = lines
          /\ todo \in Perms(grouped[1].td)
          /\ pc = "insert"
          /\ suggestion = NoneDoc
          /\ snippet = NoSnippet
          /\ genLog = <<>>
          /\ quit = FALSE
          /\ atQuit = <<>>
          /\ writes = <<>>
          /\ log = <<>>
          /\ stdin = <<>>
          /\ ans = <<>>
          /\ runs = <<>>

NextOrder == InsertNext \/ WriteFile

SpecOrder == InitOrder /\ [][NextOrder]_vars

\* ------------------------------------------------------------------------
\* in_place.py on a copy of the file main() applies to
\* ------------------------------------------------------------------------
VariantShapes == Shapes \cup {"tabbed"}

\* files 1 and 2 hold the same text; main() of docsgen stands in front of
\* its apply loop with every target of file 1 accepted
InitVariant ==
    \E shapes \in SeqsUpTo(VariantShapes, MaxFuncs) :
      LET lines == FileLines(shapes, 1, 1)
          found == FindMissingDocstrings(lines, 1)
      IN  /\ found # <<>>
          /\ disk = [f \in Files |-> JoinLines(lines)]
          /\ missing = found
          /\ idx = Len(found)
          /\ \E docs \in [1..Len(found) -> GenDocs] :
                results = [i \in 1..Len(found) |->
                              [tgt |-> found[i], doc |-> Some(docs[i])]]
          /\ grouped = Grouped(results)
          /\ gi = 1
          /\ src_lines = <<>>
          /\ todo = <<>>
          /\ pc = "load"
          /\ suggestion = NoneDoc
          /\ snippet = NoSnippet
          /\ genLog = <<>>
          /\ quit = FALSE
          /\ atQuit = <<>>
          /\ writes = <<>>
          /\ log = <<>>
          /\ stdin = <<>>
          /\ ans = <<>>
          /\ runs = <<>>

\* in_place.main on file 2: read_text, find_targets, splitlines; the agent
\* answers for each target with the text the session accepted for it
InPlaceLoad ==
    /\ pc = "done"
    /\ LET lines == ReadLines(disk[2])
           targets == FindTargets(lines)
           output(t) == results[CHOOSE i \in 1..Len(results) :
                                     results[i].tgt.lineno = t.lineno].doc.txt
       IN  /\ targets # <<>>
           /\ src_lines' = lines
           /\ todo' = [i \in 1..Len(targets) |->
                          [tgt |-> targets[i], doc |-> StripDoc(output(targets[i]))]]
    /\ pc' = "ip_insert"
    /\ UNCHANGED <<disk, missing, grouped, gi, writes, log>>
    /\ UNCHANGED sessionVars
    /\ UNCHANGED promptVars
    /\ UNCHANGED auditVars

\* one iteration of "for tgt in targets": insert_docstring(lines, tgt, doc)
InPlaceInsertNext ==
    /\ pc = "ip_insert"
    /\ todo # <<>>
    /\ src_lines' = InPlaceInsertDocstring(src_lines, Head(todo).tgt, Head(todo).doc)
    /\ todo' = Tail(todo)
    /\ UNCHANGED <<disk, pc, missing, grouped, gi, writes, log>>
    /\ UNCHANGED sessionVars
    /\ UNCHANGED promptVars
    /\ UNCHANGED auditVars

\* file.write_text("\n".join(lines) + "\n")
InPlaceWrite ==
    /\ pc = "ip_insert"
    /\ todo = <<>>
    /\ disk' = [disk EXCEPT ![2] = JoinLines(src_lines)]
    /\ pc' = "ip_done"
    /\ UNCHANGED <<missing, grouped, gi, src_lines, todo, writes, log>>
    /\ UNCHANGED sessionVars
    /\ UNCHANGED promptVars
    /\ UNCHANGED auditVars

NextVariant ==
    \/ LoadFile \/ InsertNext \/ WriteFile
    \/ InPlaceLoad \/ InPlaceInsertNext \/ InPlaceWrite

SpecVariant == InitVariant /\ [][NextVariant]_vars

\* ------------------------------------------------------------------------
\* add_docstrings.py: the same apply loop around its own _insert_docstring
\* ------------------------------------------------------------------------
\* one iteration of the inner loop of add_docstrings.main
AddInsertNext ==
    /\ pc = "insert"
    /\ todo # <<>>
    /\ Head(todo).tgt.lineno <= Len(src_lines)
    /\ src_lines' = AddInsertDocstring(src_lines, Head(todo).tgt, Head(todo).doc)
    /\ todo' = Tail(todo)
    /\ log' = Append(log, [name |-> Head(todo).tgt.name,
                            landed |-> IsDefOf(src_lines, Head(todo).tgt.lineno,
                                               Head(todo).tgt.name)])
    /\ UNCHANGED <<disk, pc, missing, grouped, gi, writes>>
    /\ UNCHANGED sessionVars
    /\ UNCHANGED promptVars
    /\ UNCHANGED auditVars

\* the write of add_docstrings.main is that of docsgen
NextAdd == AddInsertNext \/ WriteFile

SpecAdd == InitOrder /\ [][NextAdd]_vars

\* ------------------------------------------------------------------------
\* manual entry and edit, on every text the editor may hand back
\* ------------------------------------------------------------------------
\* content.strip() of what the editor or the inline collector holds
AnyTexts ==
    {t \in SeqsUpTo({"q", "x", "n"}, MaxEdit) :
        t # <<>> => (t[1] # "n" /\ t[Len(t)] # "n")}

\* main() has scanned one file with one undocumented function
InitEdit ==
    LET lines == FnLines("plain", 11)
    IN  /\ disk = [f \in Files |-> IF f = 1 THEN JoinLines(lines) ELSE <<NL>>]
        /\ missing = FindMissingDocstrings(lines, 1)
        /\ pc = "present"
        /\ idx = 1
        /\ results = <<>>
        /\ suggestion = NoneDoc
        /\ snippet = NoSnippet
        /\ grouped = <<>>
        /\ gi = 0
        /\ src_lines = <<>>
        /\ todo = <<>>
        /\ genLog = <<>>
        /\ quit = FALSE
        /\ atQuit = <<>>
        /\ writes = <<>>
        /\ log = <<>>
        /\ stdin = <<>>
        /\ ans = <<>>
        /\ runs = <<>>

ManualAny == ManualFrom(AnyTexts)
EditAny == EditFrom(AnyTexts)

NextEdit == Present \/ ChooseGenerate \/ GenerateOk \/ ManualAny \/ EditAny

SpecEdit == InitEdit /\ [][NextEdit]_vars

\* ------------------------------------------------------------------------
\* Target.signature, on every source text
\* ------------------------------------------------------------------------
\* def f():   def f(   a):   a,   if a:   x   @d
SrcLines ==
    {Line("def", 0, 11, <<"x">>, TRUE), Line("def", 0, 11, <<"x">>, FALSE),
     Line("sig", 4, 11, <<"x">>, TRUE), Line("sig", 4, 11, <<"x">>, FALSE),
     Line("body", 4, 11, <<"x">>, TRUE), Line("body", 4, 11, <<"x">>, FALSE),
     Line("deco", 0, 11, <<"x">>, FALSE)}

\* the session is about to present a Target built around any src
InitSig ==
    /\ \E src \in SeqsUpTo(SrcLines, MaxSrc) : missing = <<Target(1, 1, 11, src)>>
    /\ disk = [f \in Files |-> <<NL>>]
    /\ pc = "present"
    /\ idx = 1
    /\ results = <<>>
    /\ suggestion = NoneDoc
    /\ snippet = NoSnippet
    /\ grouped = <<>>
    /\ gi = 0
    /\ src_lines = <<>>
    /\ todo = <<>>
    /\ genLog = <<>>
    /\ quit = FALSE
    /\ atQuit = <<>>
    /\ writes = <<>>
    /\ log = <<>>
    /\ stdin = <<>>
    /\ ans = <<>>
    /\ runs = <<>>

NextSig == Present

SpecSig == InitSig /\ [][NextSig]_vars

\* ------------------------------------------------------------------------
\* _prompt, followed line by line
\* ------------------------------------------------------------------------
\* the characters of a typed line: a blank, S, s and g
Keys == {" ", "S", "s", "g"}

Typed == SeqsUpTo(Keys, MaxIn)

\* str.strip()
RECURSIVE Strip(_)
Strip(t) ==
    IF t = <<>> THEN t
    ELSE IF Head(t) = " " THEN Strip(Tail(t))
    ELSE IF t[Len(t)] = " " THEN Strip(SubSeq(t, 1, Len(t) - 1))
    ELSE t

\* str.lower()
LowerCh(c) == IF c = "S" THEN "s" ELSE c
Lower(t) == [i \in 1..Len(t) |-> LowerCh(t[i])]

PromptPcs == {"prompt", "review", "generror"}

\* the set valid of each of the three calls of _prompt
ValidAt(p) ==
    CASE p = "prompt" -> {"g", "m", "s", "q"}
      [] p = "generror" -> {"r", "s", "q"}
      [] p = "review" -> {"a", "r", "e", "s", "q"}

\* the session stands at one of its prompts for the only target of a file,
\* and the operator's lines are waiting
InitPrompt ==
    LET lines == FnLines("plain", 11)
    IN  /\ disk = [f \in Files |-> IF f = 1 THEN JoinLines(lines) ELSE <<NL>>]
        /\ missing = FindMissingDocstrings(lines, 1)
        /\ idx = 1
        /\ snippet = Signature(missing[1].src)
        /\ \/ pc = "prompt" /\ suggestion = NoneDoc /\ genLog = <<>>
           \/ \E d \in GenDocs :
                 pc = "review" /\ suggestion = Some(d) /\ genLog = <<Some(d)>>
           \/ pc = "generror" /\ suggestion = NoneDoc /\ genLog = <<NoneDoc>>
        /\ results = <<>>
        /\ grouped = <<>>
        /\ gi = 0
        /\ src_lines = <<>>
        /\ todo = <<>>
        /\ quit = FALSE
        /\ atQuit = <<>>
        /\ writes = <<>>
        /\ log = <<>>
        /\ stdin \in SeqsUpTo(Typed, 2)
        /\ ans = <<>>
        /\ runs = <<>>

\* one round of the loop that compares ans as it was typed
PromptReadNoLower ==
    /\ pc \in PromptPcs
    /\ stdin # <<>>
    /\ ans' = Strip(Head(stdin))
    /\ stdin' = Tail(stdin)
    /\ pc' = IF ans' # <<>> /\ ans'[1] \in ValidAt(pc) THEN "answered" ELSE pc
    /\ UNCHANGED <<disk, missing>> /\ UNCHANGED sessionVars /\ UNCHANGED applyVars
    /\ UNCHANGED auditVars

\* one round of the while loop of _prompt: ans = input(msg).strip().lower(),
\* then return ans[0] or print and go round again
PromptRead ==
    /\ pc \in PromptPcs
    /\ stdin # <<>>
    /\ ans' = Lower(Strip(Head(stdin)))
    /\ stdin' = Tail(stdin)
    /\ pc' = IF ans' # <<>> /\ ans'[1] \in ValidAt(pc) THEN "answered" ELSE pc
    /\ UNCHANGED <<disk, missing>> /\ UNCHANGED sessionVars /\ UNCHANGED applyVars
    /\ UNCHANGED auditVars

\* input() at the end of the input: EOFError, which nothing catches
PromptEof ==
    /\ pc \in PromptPcs
    /\ stdin = <<>>
    /\ pc' = "raised"
    /\ UNCHANGED <<disk, missing>> /\ UNCHANGED sessionVars /\ UNCHANGED applyVars
    /\ UNCHANGED promptVars
    /\ UNCHANGED auditVars

NextPrompt == PromptRead \/ PromptEof

SpecPrompt == InitPrompt /\ [][NextPrompt]_vars

\* ------------------------------------------------------------------------
\* the scan alone, with or without -i, on more kinds of trees
\* ------------------------------------------------------------------------
InitScan ==
    /\ \E l \in ScanLayouts : disk = [f \in Files |-> JoinLines(FileLines(l[f], f, 1))]
    /\ pc = "start"
    /\ missing = <<>>
    /\ idx = 0
    /\ results = <<>>
    /\ suggestion = NoneDoc
    /\ snippet = NoSnippet
    /\ grouped = <<>>
    /\ gi = 0
    /\ src_lines = <<>>
    /\ todo = <<>>
    /\ genLog = <<>>
    /\ quit = FALSE
    /\ atQuit = <<>>
    /\ writes = <<>>
    /\ log = <<>>
    /\ stdin = <<>>
    /\ ans = <<>>
    /\ runs = <<>>

NextScan == Scan \/ ScanOnly

SpecScan == InitScan /\ [][NextScan]_vars

\* ------------------------------------------------------------------------
\* runs without -i on the same tree, one after the other
\* ------------------------------------------------------------------------
\* the process has ended and the command is started again
Rerun ==
    /\ pc \in {"exit", "exit1"}
    /\ Len(runs) < MaxRuns
    /\ pc' = "start"
    /\ missing' = <<>>
    /\ UNCHANGED disk /\ UNCHANGED sessionVars /\ UNCHANGED applyVars
    /\ UNCHANGED promptVars
    /\ UNCHANGED auditVars

NextQuiet == ScanOnly \/ Rerun

SpecQuiet == InitScan /\ [][NextQuiet]_vars

\* ------------------------------------------------------------------------
\* properties
\* ------------------------------------------------------------------------
Range(f) == {f[i] : i \in DOMAIN f}

LinenoOf(name) == (CHOOSE t \in Range(missing) : t.name = name).lineno

DefIndex(lines, name) == CHOOSE n \in 1..Len(lines) : IsDefOf(lines, n, name)

\* the accepted entries of a result map for one file
AcceptedIn(res, f) == {r \in Range(res) : r.doc.some /\ r.tgt.filepath = f}

\* the line right after the def line of name is the first line name's
\* insertion put into the buffer
BeginsAfterDef(lines, name, doc) ==
    LET d == DefIndex(lines, name)
    IN  /\ d < Len(lines)
        /\ lines[d + 1].own = name
        /\ IF SplitLines(doc) = <<>>
           THEN lines[d + 1].k = ""
           ELSE lines[d + 1].k = "ins" /\ lines[d + 1].txt = SplitLines(doc)[1]

\* C1: while main() applies a file's insertions in descending line order,
\* the def line of the target whose insertion runs is at lineno, and the
\* insertion leaves the def line of every target still pending (all of
\* smaller line number) where it was: at that target's lineno.
C1_PendingDefLinesStay ==
    [][(pc = "insert" /\ todo # <<>>) =>
         /\ IsDefOf(src_lines, Head(todo).tgt.lineno, Head(todo).tgt.name)
         /\ \A i \in 1..Len(todo') :
               /\ todo'[i].tgt.lineno < Head(todo).tgt.lineno
               /\ DefIndex(src_lines', todo'[i].tgt.name)
                    = DefIndex(src_lines, todo'[i].tgt.name)
               /\ DefIndex(src_lines', todo'[i].tgt.name) = todo'[i].tgt.lineno]_vars

C1_Witness ==
    /\ pc = "insert"
    /\ log # <<>>
    /\ todo # <<>>
    /\ IsDefOf(src_lines, Head(todo).tgt.lineno, Head(todo).tgt.name)

\* C2: after apply, the first documentation line of every accepted target
\* is the line right after the last line of the target's header.
C2_DocRightAfterHeader ==
    pc = "done" =>
      \A r \in Range(results) :
        (r.doc.some /\ SplitLines(r.doc.txt) # <<>>) =>
          LET lines == ReadLines(disk[r.tgt.filepath])
              h == HeaderEnd(lines, DefIndex(lines, r.tgt.name))
          IN  /\ h < Len(lines)
              /\ lines[h + 1].k = "ins"
              /\ lines[h + 1].own = r.tgt.name
              /\ lines[h + 1].txt = SplitLines(r.doc.txt)[1]

\* the insertions made so far were not in strictly descending line order
NotDescending ==
    \E i, j \in 1..Len(log) : i < j /\ LinenoOf(log[i].name) <= LinenoOf(log[j].name)

Ascending ==
    \A i, j \in 1..Len(log) : i < j => LinenoOf(log[i].name) < LinenoOf(log[j].name)

DocOf(name) == (CHOOSE r \in Range(results) : r.tgt.name = name).doc.txt

\* C3 as stated: in an order that is not strictly descending, the text of
\* the last-inserted target, and of no other, begins right after its def line.
C3_OnlyLastPlaced ==
    (pc = "done" /\ Len(log) >= 2 /\ NotDescending) =>
      \A i \in 1..Len(log) :
        BeginsAfterDef(src_lines, log[i].name, DocOf(log[i].name)) <=> i = Len(log)

\* C3 amended: in an order that is not strictly descending some target is
\* misplaced; an insertion lands right after its def line exactly when no
\* target of smaller line number was inserted before it (so the first
\* insertion always does), and a text that landed elsewhere never ends up
\* right after its def line.
C3_MisplacedAfterSmaller ==
    (pc = "done" /\ Len(log) >= 2 /\ NotDescending) =>
      /\ \E i \in 1..Len(log) : ~log[i].landed
      /\ \A i \in 1..Len(log) :
            /\ log[i].landed <=>
                 ~\E j \in 1..(i - 1) : LinenoOf(log[j].name) < LinenoOf(log[i].name)
            /\ ~log[i].landed =>
                 ~BeginsAfterDef(src_lines, log[i].name, DocOf(log[i].name))

C3_Witness ==
    /\ pc = "done" /\ Len(log) >= 3 /\ NotDescending
    /\ log[1].landed /\ ~log[Len(log)].landed

\* C4: when the insertions of a file with two or more accepted targets are
\* applied in ascending line order, some insertion after the first lands at
\* a position that is not right after its own def line.
C4_AscendingCorrupts ==
    (todo = <<>> /\ Len(log) >= 2 /\ Ascending) =>
      \E i \in 2..Len(log) : ~log[i].landed

C4_Witness ==
    /\ todo = <<>> /\ Len(log) >= 2 /\ Ascending
    /\ DocOf(log[1].name) = <<>>
    /\ ~log[2].landed

Names(S) == {r.tgt.name : r \in S}
LogNames(l) == {l[i].name : i \in 1..Len(l)}

\* C5: a file is written only when every insertion accepted for it is in
\* the buffer (each exactly once), no file is written twice, a file without
\* an accepted documentation string is not written, and when apply is over
\* every file with an accepted documentation string has been written.
C5_WrittenOnceWhenComplete ==
    /\ \A i \in 1..Len(writes) :
          /\ AcceptedIn(results, writes[i].path) # {}
          /\ LogNames(writes[i].ins) = Names(AcceptedIn(results, writes[i].path))
          /\ Len(writes[i].ins) = Cardinality(AcceptedIn(results, writes[i].path))
          /\ \A j \in 1..Len(writes) : writes[j].path = writes[i].path => j = i
    /\ pc = "done" =>
          \A f \in Files :
             AcceptedIn(results, f) # {} => \E i \in 1..Len(writes) : writes[i].path = f
    /\ pc = "exit" => writes = <<>>

C5_Witness ==
    /\ pc = "done"
    /\ Len(writes) = 1
    /\ Len(writes[1].ins) = 2
    /\ \E f \in Files : AcceptedIn(results, f) = {} /\ f # writes[1].path

\* C6: the content of a file changes, and a write is made, only once
\* _interactive_session has returned.
C6_NoWriteDuringSession ==
    [][(disk' # disk \/ writes' # writes) =>
          pc \notin (SessionPcs \cup {"start"})]_vars

C6_Witness ==
    /\ writes # <<>>
    /\ \E f \in Files : disk[f] = JoinLines(src_lines) /\ AcceptedIn(results, f) # {}
    /\ \E r \in Range(results) : ~r.doc.some

\* C7: once the operator has answered q, no target is presented any more,
\* the result map stays what it was at that moment and has entries only for
\* targets before the one under negotiation; only those targets are ever
\* inserted, and when apply is over every documentation string accepted
\* before the quit is in the written file, right after the def line.
C7_QuitKeepsRecorded ==
    quit =>
      /\ pc \notin SessionPcs
      /\ results = atQuit
      /\ \A r \in Range(results) : \E i \in 1..(idx - 1) : missing[i] = r.tgt
      /\ \A i \in 1..Len(log) : \E j \in 1..(idx - 1) : missing[j].name = log[i].name
      /\ pc = "exit" => atQuit = <<>>
      /\ pc = "done" =>
            \A r \in Range(atQuit) :
              r.doc.some =>
                /\ \E i \in 1..Len(writes) :
                      writes[i].path = r.tgt.filepath /\ r.tgt.name \in LogNames(writes[i].ins)
                /\ BeginsAfterDef(ReadLines(disk[r.tgt.filepath]), r.tgt.name, r.doc.txt)

C7_Witness ==
    /\ quit /\ pc = "done"
    /\ idx = 2
    /\ Len(writes) = 1
    /\ \E r \in Range(atQuit) : r.doc.some

\* C8 as stated: once the operator has answered q, no file is written.
C8_NoWriteAfterQuit ==
    [][quit => (writes' = writes /\ disk' = disk)]_vars

\* C8 amended: a write that follows a quit is made by apply, for a file that
\* has a documentation string accepted before the quit and has not been
\* written yet, and the text written holds the insertions accepted before
\* the quit and nothing else of the session.
C8_WritesAfterQuitAreRecorded ==
    [][(quit /\ writes' # writes) =>
          LET w == writes'[Len(writes')]
          IN  /\ pc = "insert" /\ todo = <<>>
              /\ writes' = Append(writes, w)
              /\ \A i \in 1..Len(writes) : writes[i].path # w.path
              /\ AcceptedIn(atQuit, w.path) # {}
              /\ LogNames(w.ins) = Names(AcceptedIn(atQuit, w.path))
              /\ disk'[w.path] = JoinLines(src_lines)
              /\ \A f \in Files \ {w.path} : disk'[f] = disk[f]]_vars

C8_Witness ==
    /\ quit
    /\ writes # <<>>
    /\ idx <= Len(missing)
    /\ \A r \in Range(results) : r.tgt # missing[idx]

\* C9: a generator call that raises leads to the retry/skip/quit prompt for
\* the same target with the result map untouched; at that prompt the result
\* map stays untouched too, and the session returns before the last target
\* only if the operator answers q.
C9_GenerationErrorRecoverable ==
    [][/\ (pc = "generate" /\ pc' # "review") =>
              /\ pc' = "generror"
              /\ genLog' = Append(genLog, NoneDoc)
              /\ results' = results /\ idx' = idx /\ quit' = quit
       /\ pc = "generror" =>
              /\ results' = results
              /\ pc' \in {"generate", "present", "returned"}
              /\ pc' = "generate" => idx' = idx
              /\ pc' = "present" => idx' = idx + 1
              /\ (pc' = "returned" /\ idx < Len(missing)) => quit']_vars

C9_Witness ==
    /\ pc = "generror"
    /\ results # <<>>
    /\ idx > 1
    /\ genLog = <<NoneDoc, NoneDoc>>

\* C10: the text recorded by accept at the review prompt is the output of
\* the last generator call for that target.
C10_AcceptRecordsLatest ==
    [][Accept =>
          /\ genLog # <<>>
          /\ genLog[Len(genLog)].some
          /\ \E i \in 1..Len(results') :
                /\ results'[i].tgt = missing[idx]
                /\ results'[i].doc = genLog[Len(genLog)]]_vars

C10_Witness ==
    /\ pc \in {"present", "prompt", "returned"}
    /\ results # <<>>
    /\ Len(genLog) = 2
    /\ ~genLog[1].some
    /\ genLog[2].some
    /\ results[Len(results)].doc = genLog[2]

C10_WitnessRegenerated ==
    /\ pc \in {"present", "prompt", "returned"}
    /\ results # <<>>
    /\ Len(genLog) = 2
    /\ genLog[1].some /\ genLog[2].some /\ genLog[1] # genLog[2]
    /\ results[Len(results)].doc = genLog[2]

HasEntry(res, t) == \E r \in Range(res) : r.tgt = t

\* C11: the session moves only along PRESENTED -> GENERATING / resolved /
\* quit, GENERATING -> review or GENERATION_ERROR, review -> GENERATING
\* (regenerate) / resolved / quit, GENERATION_ERROR -> GENERATING (retry) /
\* skipped / quit; a documentation string is recorded only at the first
\* prompt (manual) or at the review prompt (accept, edit), and nothing is
\* recorded from GENERATING or GENERATION_ERROR.
C11_SessionTransitions ==
    [][/\ pc = "prompt" =>
             \/ pc' = "generate" /\ results' = results /\ idx' = idx
             \/ pc' = "returned" /\ quit' /\ results' = results
             \/ pc' \in {"present", "returned"} /\ ~quit' /\ HasEntry(results', tgt)
       /\ pc = "generate" =>
             pc' \in {"review", "generror"} /\ results' = results /\ idx' = idx
       /\ pc = "review" =>
             \/ pc' = "generate" /\ results' = results /\ idx' = idx
             \/ pc' = "returned" /\ quit' /\ results' = results
             \/ pc' \in {"present", "returned"} /\ ~quit' /\ HasEntry(results', tgt)
       /\ pc = "generror" =>
             /\ results' = results
             /\ \/ pc' = "generate" /\ idx' = idx
                \/ pc' = "returned" /\ quit'
                \/ pc' \in {"present", "returned"} /\ ~quit'
       /\ (\E r \in Range(results') : r.doc.some /\ r \notin Range(results)) =>
             pc \in {"prompt", "review"}]_vars

C11_Witness ==
    /\ pc = "generror"
    /\ Len(genLog) = 2 /\ genLog[1].some /\ ~genLog[2].some
    /\ suggestion.some

\* C12: when the session has run to its end without a quit, the result map
\* has an entry for every target.
C12_EveryTargetHasEntry ==
    (pc = "returned" /\ ~quit) =>
       \A i \in 1..Len(missing) : HasEntry(results, missing[i])

\* C13: the position of the for loop changes only to present the next
\* target of the list, and the next target is presented only once the
\* current one is accepted or skipped (an entry of the result map, or skip
\* at the error prompt); a target on display is not presented again.
C13_PresentedInOrder ==
    [][/\ idx' # idx => (idx' = idx + 1 /\ pc' = "present")
       /\ pc' = "present" =>
             /\ idx' = idx + 1 /\ idx' <= Len(missing')
             /\ \/ pc = "start"
                \/ pc \in {"prompt", "review"} /\ HasEntry(results', missing[idx])
                \/ pc = "generror"
       /\ pc = "present" => (idx' = idx /\ pc' \in {"prompt", "raised"})]_vars

C13_Witness ==
    /\ pc = "prompt" /\ idx = 2 /\ snippet.ok
    /\ HasEntry(results, missing[1])
    /\ snippet.lines[1] = missing[2].src[1]

\* the lines one insertion put into the buffer
InsertedLines(lines, name) ==
    SelectSeq(lines, LAMBDA l : l.k = "ins" /\ l.own = name)

\* C14: the text of every insertion made into the buffer is delimited by
\* triple quotes.
C14_InsertedTextDelimited ==
    pc = "insert" =>
       \A i \in 1..Len(log) :
          LET ls == InsertedLines(src_lines, log[i].name)
          IN  /\ ls # <<>>
              /\ StartsWith(ls[1].txt, QQQ)
              /\ EndsWith(ls[Len(ls)].txt, QQQ)

WellDelimited(s) == Len(s) >= 6 /\ StartsWith(s, QQQ) /\ EndsWith(s, QQQ)

\* C15: every documentation string recorded by manual entry or by edit
\* begins with a triple quote and ends with another one.
C15_RecordedWellDelimited ==
    \A r \in Range(results) : r.doc.some => WellDelimited(r.doc.txt)

\* C16: _insert_docstring gives every line of the text the indentation of
\* the line that is at lineno in the buffer when it runs, plus four spaces.
C16_IndentFromLiveLine ==
    [][(pc = "insert" /\ todo # <<>>) =>
          LET t == Head(todo).tgt
              docLines == SplitLines(Head(todo).doc)
          IN  /\ Len(src_lines') = Len(src_lines) + Len(docLines) + 1
              /\ \A i \in 1..Len(docLines) :
                    /\ src_lines'[t.lineno + i].k = "ins"
                    /\ src_lines'[t.lineno + i].txt = docLines[i]
                    /\ src_lines'[t.lineno + i].ind = src_lines[t.lineno].ind + 4]_vars

\* an inserted line whose indentation is not that of its def line plus four
C16_Witness ==
    /\ pc = "done"
    /\ \E i \in 1..Len(src_lines) :
          /\ src_lines[i].k = "ins"
          /\ src_lines[i].ind
               # src_lines[DefIndex(src_lines, src_lines[i].own)].ind + 4

\* C17: once the session is over with no documentation string in the
\* result map, nothing is loaded, inserted or written and no file changes.
C17_AllSkippedNoChange ==
    [][(pc \notin (SessionPcs \cup {"start"})
          /\ \A r \in Range(results) : ~r.doc.some) =>
            /\ disk' = disk /\ writes' = writes /\ log' = log
            /\ src_lines' = src_lines
            /\ pc' \in {"done", "exit"}]_vars

C17_Witness ==
    /\ pc = "done"
    /\ Len(results) = Len(missing) /\ Len(missing) = 2
    /\ \A r \in Range(results) : ~r.doc.some
    /\ writes = <<>>
    /\ \A f \in Files : FindMissingDocstrings(ReadLines(disk[f]), f)
                          = SelectSeq(missing, LAMBDA t : t.filepath = f)

\* C18: after apply with a single accepted target, the written file parses,
\* the inserted text is the docstring of the function, and a new scan of the
\* file returns no target for it.
C18_RescanFindsNone ==
    (pc = "done" /\ Cardinality({r \in Range(results) : r.doc.some}) = 1) =>
       \A r \in Range(results) :
          r.doc.some =>
             LET lines == ReadLines(disk[r.tgt.filepath])
             IN  /\ Parses(lines)
                 /\ HasDocstring(lines, DefIndex(lines, r.tgt.name))
                 /\ \A t \in Range(FindMissingDocstrings(lines, r.tgt.filepath)) :
                       t.name # r.tgt.name

\* C19: the signature shown for a target is its src from the def line
\* through the first line that ends with ':'.
C19_SignatureIsHeader ==
    pc = "prompt" =>
       /\ snippet.ok
       /\ snippet.lines = SubSeq(tgt.src, 1, HeaderEnd(tgt.src, 1))

\* C20: Target.signature raises when src has no def line, and when no line
\* from the def line on ends with ':'.
C20_SignatureRaises ==
    LET src == missing[1].src
        defs == {n \in 1..Len(src) : src[n].k = "def"}
    IN  (pc # "present"
           /\ \/ defs = {}
              \/ \A d \in defs : \A n \in d..Len(src) : ~src[n].colon) =>
          (pc = "raised" /\ ~snippet.ok)

\* the targets of the list that are in file f
TargetsIn(list, f) == SelectSeq(list, LAMBDA t : t.filepath = f)

\* the lines of file f that open a function without a documentation string
Undocumented(f) ==
    LET lines == ReadLines(disk[f])
    IN  {n \in 1..Len(lines) :
            lines[n].k \in {"def", "adef"} /\ ~HasDocstring(lines, n)}

\* C21: after the scan, every function definition of a file that parses,
\* at any depth and with or without async, has exactly one target when its
\* body does not begin with a documentation string and none when it does.
C21_OneTargetPerUndocumented ==
    pc # "start" =>
       \A f \in Files :
          LET lines == ReadLines(disk[f])
          IN  Parses(lines) =>
                \A n \in 1..Len(lines) :
                   lines[n].k \in {"def", "adef"} =>
                      Cardinality({i \in 1..Len(missing) :
                                      missing[i].filepath = f /\ missing[i].lineno = n})
                        = IF n \in Undocumented(f) THEN 1 ELSE 0

\* C22: the targets returned for one file are in ascending order of their
\* start line, and extracting from the file's text once more gives the same
\* list.
C22_AscendingAndRepeatable ==
    pc # "start" =>
       \A f \in Files :
          LET mine == TargetsIn(missing, f)
          IN  /\ \A i, j \in 1..Len(mine) : i < j => mine[i].lineno <= mine[j].lineno
              /\ mine = FindMissingDocstrings(ReadLines(disk[f]), f)

\* a file whose targets the walk met in another order than that of the lines
C22_Witness ==
    /\ pc # "start"
    /\ \E f \in Files :
          /\ Len(TargetsIn(missing, f)) = 3
          /\ Parses(ReadLines(disk[f]))
          /\ WalkTargets(ReadLines(disk[f]), f) # TargetsIn(missing, f)

\* C23: a file that does not parse adds no target and does not stop the
\* scan: the scan comes to its end, and every function without a
\* documentation string that find_missing_docstrings looks for (def) in a
\* file that parses has its target.
C23_ParseFailureSkipsFile ==
    pc # "start" =>
       /\ pc \in {"present", "exit", "exit1"}
       /\ \A f \in Files :
             LET lines == ReadLines(disk[f])
             IN  IF ~Parses(lines)
                 THEN TargetsIn(missing, f) = <<>>
                 ELSE \A n \in Undocumented(f) :
                         lines[n].k = "def" =>
                            \E i \in 1..Len(missing) :
                               missing[i].filepath = f /\ missing[i].lineno = n

C23_Witness ==
    /\ pc # "start"
    /\ ~Parses(ReadLines(disk[1]))
    /\ TargetsIn(missing, 2) # <<>>

\* C24: a run without -i ends with status 0 when the scan found no function
\* without a documentation string and with a status other than 0 when it
\* found one.
C24_ScanOnlyExitStatus ==
    (idx = 0 /\ pc \in {"exit", "exit1"}) =>
       (ExitStatus = 0 <=>
          \A f \in Files : FindMissingDocstrings(ReadLines(disk[f]), f) = <<>>)

C24_Witness ==
    /\ pc = "exit1" /\ ExitStatus = 1
    /\ TargetsIn(missing, 1) # <<>> /\ TargetsIn(missing, 2) # <<>>

\* C25: the src of every target the scan returns is the span of the file's
\* lines from lineno through the end of the function, a file whose only
\* function without a documentation string is one top-level function gets
\* exactly one target, and the targets are never changed after the scan.
C25_SrcIsFrozenSpan ==
    [][/\ pc = "start" =>
             \A f \in Files :
                LET lines == ReadLines(disk[f])
                    mine == TargetsIn(missing', f)
                IN  /\ \A i \in 1..Len(mine) :
                          mine[i].src = SubSeq(lines, mine[i].lineno,
                                               EndLineno(lines, mine[i].lineno))
                    /\ (/\ Parses(lines)
                         /\ Cardinality(Undocumented(f)) = 1
                         /\ \A n \in Undocumented(f) : lines[n].ind = 0) =>
                           /\ Len(mine) = 1
                           /\ mine[1].lineno \in Undocumented(f)
       /\ pc # "start" => missing' = missing]_vars

\* C26: while the session runs, one target is under negotiation (nothing is
\* recorded for it or for a later one) and no buffer is held; a file's buffer
\* is loaded only when every file before it in grouped has been written, the
\* previous buffer being what was written last.
C26_OneTargetOneBuffer ==
    [][/\ pc \in SessionPcs =>
             /\ idx \in 1..Len(missing)
             /\ src_lines = <<>>
             /\ \A r \in Range(results) : \E j \in 1..(idx - 1) : missing[j] = r.tgt
       /\ src_lines' # src_lines => pc \in {"load", "insert"}
       /\ pc = "load" =>
             /\ Len(writes) = gi - 1
             /\ \A j \in 1..(gi - 1) : writes[j].path = grouped[j].path
             /\ gi > 1 => disk[grouped[gi - 1].path] = JoinLines(src_lines)]_vars

C26_Witness ==
    /\ pc = "insert" /\ gi = 2
    /\ Len(writes) = 1
    /\ log # <<>>
    /\ disk[writes[1].path] # JoinLines(src_lines)

\* the lines of a buffer that no insertion put there
OwnLines(lines) == SelectSeq(lines, LAMBDA l : l.k \notin {"ins", ""})

\* C27: every insertion goes into the buffer of the file its target names:
\* the buffer in progress is that of grouped's current path, the target of
\* each insertion has that path, a step of apply changes the content of no
\* other file, and the inserted lines of a file belong to targets of it.
C27_InsertsStayInOwnFile ==
    [][/\ pc = "insert" =>
             /\ OwnLines(src_lines) = ReadLines(disk[grouped[gi].path])
             /\ todo # <<>> => Head(todo).tgt.filepath = grouped[gi].path
             /\ \A f \in Files \ {grouped[gi].path} : disk'[f] = disk[f]
       /\ \A f \in Files :
             \A l \in Range(ReadLines(disk'[f])) :
                l.k = "ins" => l.own \in Names(AcceptedIn(results, f))]_vars

C27_Witness ==
    /\ pc = "done"
    /\ \A f \in Files : \E l \in Range(ReadLines(disk[f])) : l.k = "ins"

\* C28: one call of _insert_docstring with a text of k lines makes the
\* buffer k + 1 lines longer: the lines up to the one at lineno stay, the k
\* lines of the text and then one empty line follow, and the lines that were
\* after lineno follow them unchanged and in their order.
C28_InsertGrowsByKPlusOne ==
    [][(pc = "insert" /\ todo # <<>>) =>
          LET n == Head(todo).tgt.lineno
              k == Len(SplitLines(Head(todo).doc))
          IN  /\ Len(src_lines') = Len(src_lines) + k + 1
              /\ \A i \in 1..n : src_lines'[i] = src_lines[i]
              /\ \A i \in 1..k : src_lines'[n + i].k = "ins"
              /\ src_lines'[n + k + 1].k = "" /\ src_lines'[n + k + 1].txt = <<>>
              /\ \A i \in (n + 1)..Len(src_lines) :
                    src_lines'[i + k + 1] = src_lines[i]]_vars

\* a text of three lines and an empty text have been inserted
C28_Witness ==
    /\ \E i \in 4..(Len(src_lines) - 1) :
          /\ src_lines[i].k = "" /\ src_lines[i].own # 0
          /\ \A m \in 1..3 : src_lines[i - m].k = "ins"
          /\ src_lines[i + 1].k = "body"
    /\ \E j \in 2..Len(src_lines) :
          /\ src_lines[j].k = "" /\ src_lines[j].own # 0
          /\ src_lines[j - 1].k = "def"

\* C29: each line _prompt reads either makes it return the lower-cased first
\* character of the trimmed line, when that character is in the set valid of
\* the call, or makes it ask again (empty and blank lines too); whatever it
\* returns is in valid.
C29_PromptReturnsValid ==
    [][/\ (pc \in PromptPcs /\ stdin # <<>>) =>
             LET t == Strip(Head(stdin))
                 c == IF t = <<>> THEN "" ELSE LowerCh(t[1])
             IN  IF c \in ValidAt(pc)
                 THEN pc' = "answered" /\ ans'[1] = c
                 ELSE pc' = pc /\ stdin' = Tail(stdin)
       /\ pc' = "answered" =>
             pc \in PromptPcs /\ ans' # <<>> /\ ans'[1] \in ValidAt(pc)]_vars

\* the review prompt has asked again after g, and a line with S waits
C29_Witness ==
    /\ pc = "review"
    /\ ans = <<"g">>
    /\ stdin = << <<" ", "S">> >>

GeneratorCalled == Len(genLog') = Len(genLog) + 1

\* C31: the generator is called only while the session stands at the call
\* it reaches by generate, regenerate or retry, for a target that has no
\* entry yet and before any quit; each such choice is followed by exactly
\* one call, and no call is made by a skip, a manual entry, an accept, an
\* edit or a quit.
C31_GeneratorOnlyOnRequest ==
    [][/\ GeneratorCalled =>
             /\ pc = "generate" /\ ~quit
             /\ ~HasEntry(results, tgt)
             /\ genLog' = Append(genLog, genLog'[Len(genLog')])
       /\ pc = "generate" => (GeneratorCalled /\ pc' \in {"review", "generror"})
       /\ pc' = "generate" => (pc \in {"prompt", "review", "generror"} /\ ~GeneratorCalled)
       /\ quit' => ~GeneratorCalled]_vars

C31_Witness ==
    /\ pc = "review" /\ idx = 2
    /\ genLog = <<NoneDoc, suggestion>>
    /\ \E r \in Range(results) : r.tgt = missing[1] /\ r.doc.some

HasInserted(f) == \E l \in Range(ReadLines(disk[f])) : l.k = "ins"

\* C32: when an insertion has failed because lineno is beyond the end of
\* the buffer just loaded, the file in progress and the files after it in
\* grouped have not been written and hold no insertion, and the files
\* before it have been written, each once, and hold theirs.
C32_FailedInsertionStopsApply ==
    (pc = "raised" /\ grouped # <<>>) =>
       /\ Len(writes) = gi - 1
       /\ \A j \in 1..(gi - 1) :
             writes[j].path = grouped[j].path /\ HasInserted(grouped[j].path)
       /\ \A j \in gi..Len(grouped) :
             /\ \A i \in 1..Len(writes) : writes[i].path # grouped[j].path
             /\ ~HasInserted(grouped[j].path)

C32_Witness ==
    /\ pc = "raised" /\ gi = 2
    /\ Len(writes) = 1 /\ HasInserted(writes[1].path)
    /\ Head(todo).tgt.lineno > Len(ReadLines(disk[grouped[2].path]))

\* C33: once docsgen has written file 1 and in_place has written file 2,
\* which held the same text and received the same documentation texts for
\* the same targets, the two files hold the same text.
C33_VariantsAgree ==
    pc = "ip_done" => disk[2] = disk[1]

\* C34: every line add_docstrings inserts for a target is indented four
\* columns deeper than the def line of the target.
C34_AddIndentsBelowDef ==
    [][(pc = "insert" /\ todo # <<>> /\ todo' = Tail(todo)) =>
          LET lineno == Head(todo).tgt.lineno
          IN  \A i \in 1..Len(SplitLines(Head(todo).doc)) :
                 src_lines'[lineno + i].ind = src_lines[lineno].ind + 4]_vars

\* C35: two runs without -i on the same tree that differ at most in --quiet
\* end with the same exit status and write the same report file, or both
\* none.
C35_QuietOnlySilences ==
    \A i \in 1..Len(runs) : \A j \in 1..Len(runs) :
       runs[i].report = runs[j].report =>
          /\ runs[i].status = runs[j].status
          /\ runs[i].written = runs[j].written

C35_Witness ==
    /\ Len(runs) = 2
    /\ runs[1].quiet /\ ~runs[2].quiet
    /\ runs[1].report /\ runs[2].report
    /\ runs[1].written.some /\ Len(runs[1].written.txt) = 2
    /\ runs[1].status = 1
    /\ runs[1].console = <<>> /\ runs[2].console # <<>>

====
